---- MODULE Spec2Model ----
(***************************************************************************)
(* Model of scripts/gen_ir.py, the libFirm generator driver: main() puts   *)
(* the include directories on the search paths, executes the               *)
(* specification unit and the extra units, builds a jinja2 Environment     *)
(* from the jinjautil export registry, applies the -D definitions, renders *)
(* one template and writes the result to standard output.                  *)
(*                                                                         *)
(* Python dictionaries live on a heap of objects and are held by           *)
(* reference, so that copying a dictionary (dict.update) and sharing one   *)
(* are different things.  Text (names, values, rendered output) is a       *)
(* sequence of one-character strings.                                      *)
(***************************************************************************)
EXTENDS Integers, Sequences, FiniteSets, TLC

VARIABLES config, pc, sys_path, loader_includedirs, heap, env, module, num,
          defIdx, template, tpos, result, stdout, exitStatus, events

vars == <<config, pc, sys_path, loader_includedirs, heap, env, module, num,
          defIdx, template, tpos, result, stdout, exitStatus, events>>

(* ---------------------------- bounds ----------------------------------- *)
MaxExtra == 2
MaxDefs == 2
MaxDirs == 2

(* ------------------------ dictionaries --------------------------------- *)
EmptyDict == [k \in {} |-> k]

\* d[k] = v
Put(d, k, v) == [x \in DOMAIN d \cup {k} |-> IF x = k THEN v ELSE d[x]]

\* d.update(e)
Update(d, e) ==
    [x \in DOMAIN d \cup DOMAIN e |-> IF x \in DOMAIN e THEN e[x] ELSE d[x]]

\* list.insert(idx, x): an index past the end appends
ListInsert(s, idx, x) ==
    LET k == IF idx < Len(s) THEN idx ELSE Len(s)
    IN  SubSeq(s, 1, k) \o <<x>> \o SubSeq(s, k + 1, Len(s))

SeqsUpTo(S, n) == UNION {[1..k -> S] : k \in 0..n}

(* ------------------- the world outside main() -------------------------- *)
\* The unit files on disk.  A body is the unit's top-level code: "def"
\* binds a top-level name, "global"/"filter" call the export registry,
\* "raise" raises.
Stmt(o, n, v) == [op |-> o, name |-> n, value |-> v]

Units ==
    [ path \in {"spec.py", "ext.py", "bad.py", "gone.py"} |->
        CASE path = "spec.py" ->
               [readable |-> TRUE,
                body |-> << Stmt("def", <<"a">>, <<"1">>),
                            Stmt("global", <<"a">>, <<"1">>),
                            Stmt("def", <<"b">>, <<"7">>),
                            Stmt("def", <<"c">>, <<"5">>),
                            Stmt("filter", <<"f">>, <<"F", "0">>) >>]
          [] path = "ext.py" ->
               [readable |-> TRUE,
                body |-> << Stmt("def", <<"a">>, <<"2">>),
                            Stmt("global", <<"a">>, <<"2">>),
                            Stmt("def", <<"c">>, <<"6">>),
                            Stmt("filter", <<"f">>, <<"F", "2">>) >>]
          [] path = "bad.py" ->
               [readable |-> TRUE,
                body |-> << Stmt("global", <<"b">>, <<"9">>),
                            Stmt("raise", <<>>, <<>>) >>]
          [] path = "gone.py" ->
               [readable |-> FALSE, body |-> << >>] ]

UnitPaths == DOMAIN Units

\* The template files on disk, per directory.  A template is a sequence of
\* parts: literal text, the value of a global name, a call that writes the
\* export registry while rendering, or an expression that raises.
Part(o, n, t) == [op |-> o, name |-> n, text |-> t]

Disk ==
    [ dir \in {"d1", "d2", "d3"} |->
        CASE dir = "d1" ->
               ("t.tmpl" :> << Part("lit", <<>>, <<"x", ":">>),
                               Part("var", <<"a">>, <<>>),
                               Part("var", <<"b">>, <<>>) >>)
            @@ ("bad.tmpl" :> << Part("lit", <<>>, <<"x">>),
                                 Part("raise", <<>>, <<>>) >>)
          [] dir = "d2" ->
               ("t.tmpl" :> << Part("lit", <<>>, <<"y">>) >>)
            @@ ("u.tmpl" :> << Part("var", <<"a">>, <<>>),
                               Part("reg", <<"a">>, <<"z">>),
                               Part("regfilter", <<"f">>, <<"F", "3">>),
                               Part("var", <<"a">>, <<>>),
                               Part("var", <<"c">>, <<>>) >>)
          [] dir = "d3" -> EmptyDict ]

Dirs == DOMAIN Disk
TemplateNames == {"t.tmpl", "u.tmpl", "bad.tmpl", "none.tmpl"}

\* -D arguments
DefStrings ==
    { <<"a", "=", "4">>, <<"b", "=", "4", "=", "5">>, <<"a">>,
      <<"=", "8">>, <<"f", "=">>, <<"a", "=", "6">> }

\* sys.path when main() starts
InitSysPath == <<"scriptdir", "stdlib">>

\* jinjautil.exports / jinjautil.filters when main() starts: `import filters`
\* has already registered the stock filters, `import jinjautil` the helpers
InitExports == (<<"b">> :> <<"0">>)
InitFilters == (<<"f">> :> <<"F", "1">>)

\* jinja2's built-in globals and filters, which Environment() starts from
DefaultGlobals == (<<"r">> :> <<"R">>)
DefaultFilters == (<<"u">> :> <<"U">>)

\* Heap objects: the registry's two dictionaries, the environment's two
ObjIds == {"exports", "filters", "env_globals", "env_filters"}
NoEnv == [globals |-> "none", filters |-> "none"]

(* -------------------------- export registry ---------------------------- *)
\* jinjautil.export(value, name)
register_global(h, name, value) ==
    [h EXCEPT !["exports"] = Put(@, name, value)]

\* jinjautil.export_filter(function)
register_filter(h, name, function) ==
    [h EXCEPT !["filters"] = Put(@, name, function)]

(* ------------------------- load_module_from_file ----------------------- *)
\* exec_module: run the unit's top-level code statement by statement.  st
\* is [heap, ns, ok]: the heap, the module's own namespace, and whether no
\* statement has raised so far; a raise ends the execution.
RECURSIVE ExecBody(_, _, _)
ExecBody(body, k, st) ==
    IF k > Len(body) \/ ~st.ok THEN st
    ELSE LET s == body[k]
             nxt == CASE s.op = "def" ->
                           [st EXCEPT !.ns = Put(@, s.name, s.value)]
                      [] s.op = "global" ->
                           [st EXCEPT !.heap = register_global(@, s.name, s.value)]
                      [] s.op = "filter" ->
                           [st EXCEPT !.heap = register_filter(@, s.name, s.value)]
                      [] OTHER -> [st EXCEPT !.ok = FALSE]
         IN  ExecBody(body, k + 1, nxt)

\* load_module_from_file(module_name, module_path): [heap, ns, ok]; an
\* unreadable path raises before any statement runs.  Both branches of the
\* version test (exec_module, load_module) execute the file once.
load_module_from_file(h, module_name, module_path) ==
    IF ~Units[module_path].readable
    THEN [heap |-> h, ns |-> EmptyDict, ok |-> FALSE]
    ELSE ExecBody(Units[module_path].body, 1,
                  [heap |-> h, ns |-> EmptyDict, ok |-> TRUE])

\* Variant: the extra units numbered from one
ExtraNameFromOne(n) == "extra" \o ToString(n + 1)

\* 'extra%s' % (num,)
Digit(d) == CASE d = 0 -> "0" [] d = 1 -> "1" [] d = 2 -> "2" [] d = 3 -> "3"
              [] d = 4 -> "4" [] d = 5 -> "5" [] d = 6 -> "6" [] d = 7 -> "7"
              [] d = 8 -> "8" [] d = 9 -> "9"

RECURSIVE DecStr(_)
DecStr(n) == IF n < 10 THEN Digit(n) ELSE DecStr(n \div 10) \o Digit(n % 10)

ExtraName(n) == "extra" \o DecStr(n)

\* Variant: the extra units taken last to first
ExtraFileReversed(extra, n) == extra[Len(extra) - n]

\* for num, extrafile in enumerate(config.extra): the file of iteration num
ExtraFile(extra, n) == extra[n + 1]

(* ------------------------------- main ---------------------------------- *)
Event(e, n, p, o) == [ev |-> e, name |-> n, path |-> p, ok |-> o]

\* Variant: a failure is swallowed and main goes on
PropagateSwallow(ok, nextpc) == nextpc

\* main() has no try/except: an exception leaves main at once and the
\* interpreter exits with status 1
Propagate(ok, nextpc) == IF ok THEN nextpc ELSE "failed"

ExitCode(ok) == IF ok THEN 0 ELSE 1

Running == -1

\* for dir in config.includedirs: sys.path.insert(1, dir)
RECURSIVE InsertDirs(_, _, _)
InsertDirs(path, dirs, k) ==
    IF k > Len(dirs) THEN path
    ELSE InsertDirs(ListInsert(path, 1, dirs[k]), dirs, k + 1)

\* loader.includedirs += config.includedirs
ExtendLoader(includedirs, dirs) == includedirs \o dirs

\* Variant: the registry's globals are never copied
BuildEnvironmentNoGlobals(h) ==
    [heap |-> [h EXCEPT !["env_globals"] = DefaultGlobals,
                        !["env_filters"] = Update(DefaultFilters, h["filters"])],
     env |-> [globals |-> "env_globals", filters |-> "env_filters"]]

\* Variant: env.globals = jinjautil.exports; env.filters = jinjautil.filters,
\* the environment shares the registry's dictionaries
BuildEnvironmentShared(h) ==
    [heap |-> [h EXCEPT !["exports"] = Update(DefaultGlobals, @),
                        !["filters"] = Update(DefaultFilters, @)],
     env |-> [globals |-> "exports", filters |-> "filters"]]

\* env = Environment(...); env.globals.update(jinjautil.exports);
\* env.filters.update(jinjautil.filters): the environment gets two fresh
\* dictionaries holding jinja2's defaults, and the registry's entries are
\* copied into them.  Returns [heap, env].
BuildEnvironment(h) ==
    [heap |-> [h EXCEPT !["env_globals"] = Update(DefaultGlobals, h["exports"]),
                        !["env_filters"] = Update(DefaultFilters, h["filters"])],
     env |-> [globals |-> "env_globals", filters |-> "env_filters"]]

\* str.find(sep) for a one-character separator, 1-based; 0 when absent
RECURSIVE Find(_, _, _)
Find(s, sep, k) ==
    IF k > Len(s) THEN 0
    ELSE IF s[k] = sep THEN k ELSE Find(s, sep, k + 1)

\* Variant: definition.rpartition("="), splitting at the last separator
RECURSIVE FindLast(_, _, _)
FindLast(s, sep, k) ==
    IF k < 1 THEN 0
    ELSE IF s[k] = sep THEN k ELSE FindLast(s, sep, k - 1)

PartitionLast(s, sep) ==
    LET pos == FindLast(s, sep, Len(s))
    IN  IF pos = 0 THEN << s, <<>>, <<>> >>
        ELSE << SubSeq(s, 1, pos - 1), <<sep>>, SubSeq(s, pos + 1, Len(s)) >>

\* definition.partition("="): <<head, sep, tail>>
Partition(s, sep) ==
    LET pos == Find(s, sep, 1)
    IN  IF pos = 0 THEN << s, <<>>, <<>> >>
        ELSE << SubSeq(s, 1, pos - 1), <<sep>>, SubSeq(s, pos + 1, Len(s)) >>

\* Variant: env.globals.setdefault(name, replacement)
ApplyDefinitionSetdefault(h, e, definition) ==
    LET p == Partition(definition, "=")
    IN  [h EXCEPT ![e.globals] = IF p[1] \in DOMAIN @ THEN @ ELSE Put(@, p[1], p[3])]

\* Variant: env.filters[name] = replacement
ApplyDefinitionToFilters(h, e, definition) ==
    LET p == Partition(definition, "=")
    IN  [h EXCEPT ![e.filters] = Put(@, p[1], p[3])]

\* (name, _, replacement) = definition.partition("=");
\* env.globals[name] = replacement
ApplyDefinitionTo(h, e, definition) ==
    LET p == Partition(definition, "=")
    IN  [h EXCEPT ![e.globals] = Put(@, p[1], p[3])]

\* jinjautil.SimpleLoader.get_source: the first directory of the search
\* path that holds the name; 0 when none does
RECURSIVE FirstMatch(_, _, _)
FirstMatch(includedirs, name, k) ==
    IF k > Len(includedirs) THEN 0
    ELSE IF name \in DOMAIN Disk[includedirs[k]] THEN k
    ELSE FirstMatch(includedirs, name, k + 1)

\* Evaluating one part of the template against the environment's globals:
\* the text it contributes.  jinja2's default Undefined prints as nothing.
PartText(h, e, part) ==
    CASE part.op = "lit" -> part.text
      [] part.op = "var" ->
           IF part.name \in DOMAIN h[e.globals] THEN h[e.globals][part.name]
           ELSE <<>>
      [] OTHER -> <<>>

\* The side effect of evaluating one part: a call into the registry
PartEffect(h, part) ==
    CASE part.op = "reg" -> register_global(h, part.name, part.text)
      [] part.op = "regfilter" -> register_filter(h, part.name, part.text)
      [] OTHER -> h

\* Variant: print(result), which adds a newline
StdoutPrint(out, text) == Append(out, text \o <<"\n">>)

\* sys.stdout.write(result)
StdoutWrite(out, text) == Append(out, text)

(* ------------------------------ states --------------------------------- *)
InitWith(specfiles, extras, definitions, includedirs, templates) ==
    /\ config \in [specfile : specfiles, extra : extras,
                   definitions : definitions, includedirs : includedirs,
                   templatefile : templates]
    /\ pc = "paths"
    /\ sys_path = InitSysPath
    /\ loader_includedirs = <<>>
    /\ heap = [o \in ObjIds |-> CASE o = "exports" -> InitExports
                                  [] o = "filters" -> InitFilters
                                  [] OTHER -> EmptyDict]
    /\ env = NoEnv
    /\ module = EmptyDict
    /\ num = 0
    /\ defIdx = 0
    /\ template = <<>>
    /\ tpos = 0
    /\ result = <<>>
    /\ stdout = <<>>
    /\ exitStatus = Running
    /\ events = <<>>

\* lines 48-53
ExtendPaths ==
    /\ pc = "paths"
    /\ sys_path' = InsertDirs(sys_path, config.includedirs, 1)
    /\ loader_includedirs' = ExtendLoader(loader_includedirs, config.includedirs)
    /\ pc' = "loadspec"
    /\ UNCHANGED <<config, heap, env, module, num, defIdx, template, tpos,
                   result, stdout, exitStatus, events>>

\* the common part of the two load steps; the loop counter advances only
\* when the load returns
Load(name, path, nextpc, n) ==
    LET r == load_module_from_file(heap, name, path)
    IN  /\ heap' = r.heap
        /\ num' = IF r.ok THEN n ELSE num
        /\ module' = r.ns
        /\ events' = Append(events, Event("load", name, path, r.ok))
        /\ pc' = Propagate(r.ok, nextpc)
        /\ exitStatus' = IF r.ok THEN exitStatus ELSE ExitCode(FALSE)

\* line 56
LoadSpec ==
    /\ pc = "loadspec"
    /\ Load("spec", config.specfile,
            IF Len(config.extra) = 0 THEN "env" ELSE "loadextra", num)
    /\ UNCHANGED <<config, sys_path, loader_includedirs, env, defIdx,
                   template, tpos, result, stdout>>

\* lines 57-58, one iteration
LoadExtra ==
    /\ pc = "loadextra"
    /\ num < Len(config.extra)
    /\ Load(ExtraName(num), ExtraFile(config.extra, num),
            IF num + 1 = Len(config.extra) THEN "env" ELSE "loadextra", num + 1)
    /\ UNCHANGED <<config, sys_path, loader_includedirs, env, defIdx,
                   template, tpos, result, stdout>>

\* lines 60-62
BuildEnv ==
    /\ pc = "env"
    /\ LET r == BuildEnvironment(heap)
       IN  /\ heap' = r.heap
           /\ env' = r.env
    /\ events' = Append(events, Event("env", "", "", TRUE))
    /\ pc' = IF Len(config.definitions) = 0 THEN "resolve" ELSE "defs"
    /\ UNCHANGED <<config, sys_path, loader_includedirs, module, num, defIdx,
                   template, tpos, result, stdout, exitStatus>>

\* lines 63-65, one iteration
ApplyDefinition ==
    /\ pc = "defs"
    /\ defIdx < Len(config.definitions)
    /\ heap' = ApplyDefinitionTo(heap, env, config.definitions[defIdx + 1])
    /\ defIdx' = defIdx + 1
    /\ pc' = IF defIdx + 1 = Len(config.definitions) THEN "resolve" ELSE "defs"
    /\ UNCHANGED <<config, sys_path, loader_includedirs, env, module, num,
                   template, tpos, result, stdout, exitStatus, events>>

\* line 67
GetTemplate ==
    /\ pc = "resolve"
    /\ LET k == FirstMatch(loader_includedirs, config.templatefile, 1)
       IN  /\ template' = IF k = 0 THEN <<>>
                          ELSE Disk[loader_includedirs[k]][config.templatefile]
           /\ events' = Append(events,
                               Event("resolve", config.templatefile,
                                     IF k = 0 THEN "" ELSE loader_includedirs[k],
                                     k # 0))
           /\ pc' = Propagate(k # 0, "render")
           /\ exitStatus' = IF k # 0 THEN exitStatus ELSE ExitCode(FALSE)
    /\ UNCHANGED <<config, sys_path, loader_includedirs, heap, env, module,
                   num, defIdx, tpos, result, stdout>>

\* line 68, evaluating one part of the template
RenderPart ==
    /\ pc = "render"
    /\ tpos < Len(template)
    /\ LET part == template[tpos + 1]
           ok == part.op # "raise"
       IN  /\ result' = IF ok THEN result \o PartText(heap, env, part) ELSE result
           /\ heap' = PartEffect(heap, part)
           /\ tpos' = tpos + 1
           /\ pc' = Propagate(ok, "render")
           /\ exitStatus' = IF ok THEN exitStatus ELSE ExitCode(FALSE)
           /\ events' = IF ok THEN events
                        ELSE Append(events, Event("render", config.templatefile, "", FALSE))
    /\ UNCHANGED <<config, sys_path, loader_includedirs, env, module, num,
                   defIdx, template, stdout>>

\* line 68, render() returns the text
RenderReturn ==
    /\ pc = "render"
    /\ tpos = Len(template)
    /\ pc' = "write"
    /\ events' = Append(events, Event("render", config.templatefile, "", TRUE))
    /\ UNCHANGED <<config, sys_path, loader_includedirs, heap, env, module,
                   num, defIdx, template, tpos, result, stdout, exitStatus>>

\* line 69, and main returns
WriteResult ==
    /\ pc = "write"
    /\ stdout' = StdoutWrite(stdout, result)
    /\ events' = Append(events, Event("write", "", "", TRUE))
    /\ pc' = "done"
    /\ exitStatus' = ExitCode(TRUE)
    /\ UNCHANGED <<config, sys_path, loader_includedirs, heap, env, module,
                   num, defIdx, template, tpos, result>>

Next ==
    \/ ExtendPaths
    \/ LoadSpec
    \/ LoadExtra
    \/ BuildEnv
    \/ ApplyDefinition
    \/ GetTemplate
    \/ RenderPart
    \/ RenderReturn
    \/ WriteResult

\* Runs that vary the units loaded
Init ==
    InitWith(UnitPaths, SeqsUpTo(UnitPaths, MaxExtra),
             {<<>>, << <<"a", "=", "4">> >>, << <<"c", "=", "4">> >>},
             {<<"d1">>, <<"d2", "d1">>}, TemplateNames)

Spec == Init /\ [][Next]_vars

\* Runs that vary the -D definitions
InitDefs ==
    InitWith({"spec.py", "bad.py"}, {<<>>, <<"ext.py">>},
             SeqsUpTo(DefStrings, MaxDefs),
             {<<"d1", "d2">>}, TemplateNames)

SpecDefs == InitDefs /\ [][Next]_vars

\* Runs that vary the -I include directories
InitPath ==
    InitWith({"spec.py", "gone.py"}, {<<>>, <<"ext.py">>},
             {<<>>, << <<"a", "=", "4">> >>},
             SeqsUpTo(Dirs, MaxDirs), TemplateNames)

SpecPath == InitPath /\ [][Next]_vars

(* ============================ properties =============================== *)
\* The environment's two dictionaries, once the environment exists
EnvGlobals == heap[env.globals]
EnvFilters == heap[env.filters]

\* The environment is built and every -D definition has been applied: the
\* globals are the ones the template is rendered against
Rendering == env # NoEnv /\ defIdx = Len(config.definitions)

\* What a -D string means, stated without the code's partition: the name
\* is the text before the first "=", the value the text after it
HasSep(d) == \E k \in 1..Len(d) : d[k] = "="
FirstSep(d) == CHOOSE k \in 1..Len(d) : d[k] = "=" /\ \A j \in 1..(k - 1) : d[j] # "="
DefName(d) == IF HasSep(d) THEN SubSeq(d, 1, FirstSep(d) - 1) ELSE d
DefValue(d) == IF HasSep(d) THEN SubSeq(d, FirstSep(d) + 1, Len(d)) ELSE <<>>

OverrideNames == {DefName(config.definitions[i]) : i \in 1..Len(config.definitions)}

\* The units of the run in load order, and what their code says
LoadList == <<config.specfile>> \o config.extra
Body(u) == Units[LoadList[u]].body
StmtsOf(u, ops, n) == {k \in 1..Len(Body(u)) : Body(u)[k].op \in ops /\ Body(u)[k].name = n}
Max(S) == CHOOSE x \in S : \A y \in S : y <= x
LastValue(u, ops, n) == Body(u)[Max(StmtsOf(u, ops, n))].value
UnitsWith(ops, n) == {u \in 1..Len(LoadList) : StmtsOf(u, ops, n) # {}}
UnitNames == UNION {{Body(u)[k].name : k \in 1..Len(Body(u))} : u \in 1..Len(LoadList)}

\* C1 as stated: at render time every -D binding's name is bound to that
\* binding's value.
C1_EveryOverrideBound ==
    Rendering =>
        \A i \in 1..Len(config.definitions) :
            LET d == config.definitions[i]
            IN  /\ DefName(d) \in DOMAIN EnvGlobals
                /\ EnvGlobals[DefName(d)] = DefValue(d)

\* C1 amended: at render time every -D name is bound to the value of the
\* LAST -D binding with that name, whatever the units or the registry bound
\* to it.
C1_LastOverrideWins ==
    Rendering =>
        \A i \in 1..Len(config.definitions) :
            LET d == config.definitions[i]
            IN  (\A j \in (i + 1)..Len(config.definitions) :
                     DefName(config.definitions[j]) # DefName(d))
                => /\ DefName(d) \in DOMAIN EnvGlobals
                   /\ EnvGlobals[DefName(d)] = DefValue(d)

\* A finished run with two -D bindings of one name and different values,
\* the name being a registry global that a loaded unit also defined
C1_Witness ==
    /\ pc = "done"
    /\ \E i, j \in 1..Len(config.definitions) :
          /\ i < j
          /\ DefName(config.definitions[i]) = DefName(config.definitions[j])
          /\ DefValue(config.definitions[i]) # DefValue(config.definitions[j])
          /\ DefName(config.definitions[j]) \in DOMAIN heap["exports"]
          /\ heap["exports"][DefName(config.definitions[j])] # DefValue(config.definitions[j])
          /\ UnitsWith({"def"}, DefName(config.definitions[j])) # {}

RECURSIVE TextFrom(_)
TextFrom(k) ==
    IF k > Len(template) THEN <<>>
    ELSE LET part == template[k]
             piece == CASE part.op = "lit" -> part.text
                        [] part.op = "var" /\ part.name \in DOMAIN EnvGlobals ->
                             EnvGlobals[part.name]
                        [] OTHER -> <<>>
         IN  piece \o TextFrom(k + 1)

EventsOf(kinds) == SelectSeq(events, LAMBDA e : e.ev \in kinds)

\* C3: standard output is all or nothing.  Until the run is done nothing has
\* been written; a run that failed has written nothing; a finished run has
\* written exactly once, the complete rendered text, after every stage,
\* rendering included, succeeded.
C3_StdoutAllOrNothing ==
    /\ pc # "done" => stdout = <<>>
    /\ pc = "done" =>
          /\ stdout = << TextFrom(1) >>
          /\ \A k \in 1..Len(events) : events[k].ok
          /\ Len(EventsOf({"render"})) = 1
          /\ Len(EventsOf({"write"})) = 1
          /\ events[Len(events) - 1].ev = "render"
          /\ events[Len(events)].ev = "write"

\* A finished run whose output has text from the template, a value a unit
\* registered and a value the registry held before
C3_Witness ==
    /\ pc = "done"
    /\ stdout = << <<"x", ":", "1", "0">> >>

\* The name the i-th unit load must carry
ExpectedNames == <<"spec", "extra0", "extra1", "extra2", "extra3", "extra4">>

\* C4: the loads happen in the order spec, extra 0, extra 1, ..., each under
\* its name and each unit once, and the environment is built and the
\* template resolved and rendered only after every unit has been loaded.
C4_LoadOrder ==
    LET loads == EventsOf({"load"})
    IN  /\ Len(loads) <= Len(LoadList)
        /\ \A i \in 1..Len(loads) :
              /\ loads[i].name = ExpectedNames[i]
              /\ loads[i].path = LoadList[i]
              /\ i < Len(loads) => loads[i].ok
        /\ \A k \in 1..Len(events) :
              events[k].ev # "load" =>
                  Len(SelectSeq(SubSeq(events, 1, k - 1),
                                LAMBDA e : e.ev = "load" /\ e.ok)) = Len(LoadList)
        /\ env # NoEnv => Len(loads) = Len(LoadList)

\* A finished run that loaded two different extra units
C4_Witness ==
    /\ pc = "done"
    /\ Len(config.extra) >= 2
    /\ config.extra[1] # config.extra[2]
    /\ Len(EventsOf({"load"})) = 1 + Len(config.extra)

\* a comes before b in s (at two different places)
Precedes(s, a, b) == \E p, q \in 1..Len(s) : p < q /\ s[p] = a /\ s[q] = b

\* C5: once the paths are set up, any include directory given before
\* another one precedes it in the template search path and in sys.path.
C5_IncludeOrder ==
    pc # "paths" =>
        \A i, j \in 1..Len(config.includedirs) :
            i < j => /\ Precedes(loader_includedirs,
                                 config.includedirs[i], config.includedirs[j])
                     /\ Precedes(sys_path,
                                 config.includedirs[i], config.includedirs[j])

\* C6: once the environment exists, a step that writes the registry's
\* globals or filters changes neither the environment's globals nor its
\* filters.
C6_SnapshotSemantics ==
    [][ (/\ env # NoEnv
         /\ \/ heap'["exports"] # heap["exports"]
            \/ heap'["filters"] # heap["filters"])
        => /\ heap'[env.globals] = heap[env.globals]
           /\ heap'[env.filters] = heap[env.filters] ]_vars

\* A run in which rendering wrote a global and a filter to the registry
\* that the environment does not have
C6_Witness ==
    /\ pc \in {"render", "write", "done"}
    /\ <<"a">> \in DOMAIN heap["exports"] /\ heap["exports"][<<"a">>] = <<"z">>
    /\ <<"a">> \in DOMAIN EnvGlobals /\ EnvGlobals[<<"a">>] # <<"z">>
    /\ heap["filters"][<<"f">>] = <<"F", "3">>
    /\ EnvFilters[<<"f">>] # <<"F", "3">>

C8_DefinitionBinding ==
    [][ defIdx' = defIdx + 1 =>
            LET d == config.definitions[defIdx']
            IN  heap'[env.globals] = Put(heap[env.globals], DefName(d), DefValue(d)) ]_vars

\* A finished run that applied a -D whose value holds an "=" and a -D
\* without any "="
C8_Witness ==
    /\ pc = "done"
    /\ \E i \in 1..Len(config.definitions) :
          config.definitions[i] = <<"b", "=", "4", "=", "5">>
    /\ \E i \in 1..Len(config.definitions) : config.definitions[i] = <<"a">>
    /\ EnvGlobals[<<"b">>] = <<"4", "=", "5">>
    /\ EnvGlobals[<<"a">>] = <<>>

\* C9: applying a -D string leaves the environment's filters, and the
\* registry, as they were: the environment's globals are the only
\* dictionary it writes.
C9_FiltersUntouched ==
    [][ defIdx' # defIdx =>
            \A o \in ObjIds \ {env.globals} : heap'[o] = heap[o] ]_vars

\* A run that applied a -D whose name is the name of a registered filter
C9_Witness ==
    /\ Rendering
    /\ \E n \in OverrideNames : n \in DOMAIN EnvFilters /\ n \in DOMAIN EnvGlobals

\* C10: a failed stage is the last stage of the run: nothing is loaded,
\* built, resolved, rendered or written after it, no stage is tried twice,
\* and the run has ended, failed, with exit status 1 and no output.
C10_FailFast ==
    /\ \A k \in 1..Len(events) :
          ~events[k].ok => /\ k = Len(events)
                           /\ pc = "failed"
    /\ pc = "failed" => /\ events # <<>>
                        /\ ~events[Len(events)].ok
                        /\ exitStatus = 1
                        /\ stdout = <<>>
                        /\ ~ENABLED Next
    /\ exitStatus = 0 <=> pc = "done"
    /\ \A i, j \in 1..Len(events) :
          (i # j /\ events[i].ev = events[j].ev) =>
              (events[i].ev = "load" /\ events[i].name # events[j].name)

\* A run that failed loading the first of two extra units, the registry
\* already written by the specification unit
C10_Witness ==
    /\ pc = "failed"
    /\ Len(config.extra) >= 2
    /\ Len(events) = 2
    /\ events[2].ev = "load" /\ events[2].name = "extra0" /\ ~events[2].ok
    /\ num = 0
    /\ <<"a">> \in DOMAIN heap["exports"]

====
